---- MODULE Spec2Model ----
(***************************************************************************)
(* Model of concatenate_diagrams.py: the signature sanitizer, the          *)
(* declaration closer and the driver that merges Mermaid class diagrams.   *)
(*                                                                         *)
(* A Python str is a sequence of one-character strings; a list of lines is *)
(* a sequence of such sequences.  Python indices are 0-based, the          *)
(* sequences here are 1-based.                                             *)
(***************************************************************************)
EXTENDS Integers, Sequences, FiniteSets, TLC

VARIABLES
  pc,            \* where the run stands
  output_lines,  \* the list ensure_classes_declared is given / the driver accumulates
  processed,     \* processed_lines when the loop of ensure_classes_declared ends
  declared,      \* declared_classes at that point
  referenced,    \* referenced_classes at that point
  result,        \* what ensure_classes_declared returned
  result2,       \* what it returned when given its own result
  line,          \* the argument of replace_problematic_characters_in_signature
  sanitized,     \* what it returned
  files,         \* os.listdir(input_dir) in listing order, each entry with its lines
  fidx,          \* the entry of the listing the driver is at
  lidx,          \* the line of that file the driver is at
  written        \* the lines joined into output_file

vars == <<pc, output_lines, processed, declared, referenced, result, result2,
          line, sanitized, files, fidx, lidx, written>>

(***************************************************************************)
(* Characters                                                              *)
(***************************************************************************)

\* The grave accent (code point 96), the character of the code fence.  It
\* cannot be written inside a TLA+ string, so it is the one character that is
\* not denoted by itself.
Backtick == "GRAVE"

\* The characters in code-point order (tab, newline, carriage return, then
\* the printable ASCII range), used to compare strings as Python's sorted does.
Ascii ==
  <<"\t", "\n", "\r",
    " ", "!", "\"", "#", "$", "%", "&", "'", "(", ")", "*", "+", ",", "-", ".", "/",
    "0", "1", "2", "3", "4", "5", "6", "7", "8", "9", ":", ";", "<", "=", ">", "?", "@",
    "A", "B", "C", "D", "E", "F", "G", "H", "I", "J", "K", "L", "M",
    "N", "O", "P", "Q", "R", "S", "T", "U", "V", "W", "X", "Y", "Z",
    "[", "\\", "]", "^", "_", Backtick,
    "a", "b", "c", "d", "e", "f", "g", "h", "i", "j", "k", "l", "m",
    "n", "o", "p", "q", "r", "s", "t", "u", "v", "w", "x", "y", "z",
    "{", "|", "}", "~">>

Ord(c) == CHOOSE i \in 1..Len(Ascii) : Ascii[i] = c

\* \s of the re module, and the characters str.strip() removes.
WhiteSpace == {" ", "\t", "\n", "\r"}

\* \w of the re module.
WordChars ==
  {"0", "1", "2", "3", "4", "5", "6", "7", "8", "9", "_",
   "A", "B", "C", "D", "E", "F", "G", "H", "I", "J", "K", "L", "M",
   "N", "O", "P", "Q", "R", "S", "T", "U", "V", "W", "X", "Y", "Z",
   "a", "b", "c", "d", "e", "f", "g", "h", "i", "j", "k", "l", "m",
   "n", "o", "p", "q", "r", "s", "t", "u", "v", "w", "x", "y", "z"}

\* The character class [\w\.] of both patterns of ensure_classes_declared.
NameChars == WordChars \cup {"."}

\* The character classes [<|-] and [->] of relationship_pattern.
ConnectorHead == {"<", "|", "-"}
ConnectorTail == {"-", ">"}

(***************************************************************************)
(* String helpers                                                          *)
(***************************************************************************)

\* s[i:j] with 1-based inclusive bounds; empty when j < i.
Slice(s, i, j) == [k \in 1..(j - i + 1) |-> s[i + k - 1]]

\* Where a greedy run of characters of class S that starts at i stops: the
\* first index at or after i that holds no character of S.
RECURSIVE RunEnd(_, _, _)
RunEnd(s, i, S) ==
  IF i <= Len(s) /\ s[i] \in S THEN RunEnd(s, i + 1, S) ELSE i

\* Where a greedy run of characters other than c stops.
RECURSIVE RunEndNot(_, _, _)
RunEndNot(s, i, c) ==
  IF i <= Len(s) /\ s[i] # c THEN RunEndNot(s, i + 1, c) ELSE i

\* Whether the literal lit stands in s at index i.
HasAt(s, i, lit) ==
  /\ i + Len(lit) - 1 <= Len(s)
  /\ \A k \in 1..Len(lit) : s[i + k - 1] = lit[k]

\* str.startswith and the in operator on strings.
StartsWith(s, lit) == HasAt(s, 1, lit)
Contains(s, lit) == \E i \in 1..(Len(s) + 1) : HasAt(s, i, lit)

\* str.rstrip(), str.strip()
RECURSIVE RStrip(_)
RStrip(s) ==
  IF Len(s) > 0 /\ s[Len(s)] \in WhiteSpace THEN RStrip(SubSeq(s, 1, Len(s) - 1)) ELSE s

Strip(s) ==
  LET r == RStrip(s)
  IN  Slice(r, RunEnd(r, 1, WhiteSpace), Len(r))

\* Python's order on str: by code point, a proper prefix first.
RECURSIVE StrLess(_, _)
StrLess(a, b) ==
  IF Len(b) = 0 THEN FALSE
  ELSE IF Len(a) = 0 THEN TRUE
  ELSE IF a[1] # b[1] THEN Ord(a[1]) < Ord(b[1])
  ELSE StrLess(Tail(a), Tail(b))

\* sorted(S) for a set of strings.
RECURSIVE Sorted(_)
Sorted(S) ==
  IF S = {} THEN <<>>
  ELSE LET m == CHOOSE x \in S : \A y \in S \ {x} : StrLess(x, y)
       IN  <<m>> \o Sorted(S \ {m})

RECURSIVE Flatten(_)
Flatten(ss) == IF ss = <<>> THEN <<>> ELSE Head(ss) \o Flatten(Tail(ss))

(***************************************************************************)
(* Literals of the program                                                 *)
(***************************************************************************)

Fence == <<Backtick, Backtick, Backtick>>
FenceMermaid == <<Backtick, Backtick, Backtick, "m", "e", "r", "m", "a", "i", "d">>
ClassDiagram == <<"c", "l", "a", "s", "s", "D", "i", "a", "g", "r", "a", "m">>
ClassKeyword == <<"c", "l", "a", "s", "s">>
ClassSpace == <<"c", "l", "a", "s", "s", " ">>
NoMatch == [matched |-> FALSE]

\* char_map
char_map(c) ==
  IF c = "{" THEN <<"&", "#", "1", "2", "3", ";">>
  ELSE IF c = "}" THEN <<"&", "#", "1", "2", "5", ";">>
  ELSE <<c>>

(***************************************************************************)
(* replace_problematic_characters_in_signature                             *)
(***************************************************************************)

\* re.match(r'^(\s*[-+]\w+\([^)]*\))(.*)', line).  Every quantifier is greedy
\* and is followed by a character outside its class, so the match, when there
\* is one, takes each run whole.  '.' does not match a newline: group 2 stops
\* before the first "\n" and what follows is outside the match.
method_signature_match(s) ==
  LET sigil  == RunEnd(s, 1, WhiteSpace)
      ident  == sigil + 1
      paren  == RunEnd(s, ident, WordChars)
      close  == RunEndNot(s, paren + 1, ")")
      restTo == RunEndNot(s, close + 1, "\n")
  IN  IF /\ sigil <= Len(s) /\ s[sigil] \in {"-", "+"}
         /\ paren > ident
         /\ paren <= Len(s) /\ s[paren] = "("
         /\ close <= Len(s)
      THEN [matched |-> TRUE,
            method_signature |-> Slice(s, 1, close),
            rest_of_line |-> Slice(s, close + 1, restTo - 1)]
      ELSE NoMatch

\* pattern.sub(lambda match: char_map.get(...), method_signature)
replaced_signature(sig) == Flatten([k \in 1..Len(sig) |-> char_map(sig[k])])

replace_problematic_characters_in_signature(s) ==
  LET m == method_signature_match(s)
  IN  IF m.matched
      THEN replaced_signature(m.method_signature) \o m.rest_of_line
      ELSE s

(***************************************************************************)
(* ensure_classes_declared                                                 *)
(***************************************************************************)

\* class_name.replace('.', '_')
replace_dots_with_underscores(class_name) ==
  [k \in 1..Len(class_name) |-> IF class_name[k] = "." THEN "_" ELSE class_name[k]]

\* class_declaration_pattern.match(line); end is the index after the match:
\*   ^(\s*class\s+)([\w\.]+)(\s*\{?[^}]*)
\* Group 3 can match the empty string, so the greedy groups 1 and 2 never give
\* anything back; \s*, \{? and [^}]* together take every character up to the
\* first '}' of the rest of the line.
class_declaration_pattern(s) ==
  LET kw     == RunEnd(s, 1, WhiteSpace)
      sep    == kw + Len(ClassKeyword)
      name   == RunEnd(s, sep, WhiteSpace)
      suffix == RunEnd(s, name, NameChars)
      stop   == RunEndNot(s, suffix, "}")
  IN  IF /\ HasAt(s, kw, ClassKeyword)
         /\ name > sep
         /\ suffix > name
      THEN [matched |-> TRUE,
            g1 |-> Slice(s, 1, name - 1),
            g2 |-> Slice(s, name, suffix - 1),
            g3 |-> Slice(s, suffix, stop - 1),
            end |-> stop]
      ELSE NoMatch

\* Whether a run of connector characters is [<|-]+[->]+ .
IsConnector(c) ==
  \E k \in 1..(Len(c) - 1) :
     /\ \A i \in 1..k : c[i] \in ConnectorHead
     /\ \A i \in (k + 1)..Len(c) : c[i] \in ConnectorTail

\* relationship_pattern.match(line); end is the index after the match:
\*   ^\s*([\w\.]+)\s*([<|-]+[->]+)\s*([\w\.]+)
\* The character after each run must be white space or belong to the next
\* class, and the classes are disjoint, so every run is taken whole; the
\* connector is the whole run of '<', '|', '-', '>' and must split into a
\* head of [<|-] and a tail of [->].  Nothing is required after group 3.
relationship_pattern(s) ==
  LET src    == RunEnd(s, 1, WhiteSpace)
      srcEnd == RunEnd(s, src, NameChars)
      con    == RunEnd(s, srcEnd, WhiteSpace)
      conEnd == RunEnd(s, con, ConnectorHead \cup ConnectorTail)
      tgt    == RunEnd(s, conEnd, WhiteSpace)
      tgtEnd == RunEnd(s, tgt, NameChars)
  IN  IF /\ srcEnd > src
         /\ IsConnector(Slice(s, con, conEnd - 1))
         /\ tgtEnd > tgt
      THEN [matched |-> TRUE,
            g1 |-> Slice(s, src, srcEnd - 1),
            g2 |-> Slice(s, con, conEnd - 1),
            g3 |-> Slice(s, tgt, tgtEnd - 1),
            end |-> tgtEnd]
      ELSE NoMatch

\* re.match(r'^(\s*)', line).group(1)
leading_spaces(s) == Slice(s, 1, RunEnd(s, 1, WhiteSpace) - 1)

\* The line a declaration is rewritten to (lines 84-92).
declaration_new_line(m) ==
  m.g1 \o replace_dots_with_underscores(Strip(m.g2)) \o m.g3

\* The line a relationship is rewritten to (lines 98-114).
relationship_new_line(s, m) ==
  leading_spaces(s)
    \o replace_dots_with_underscores(Strip(m.g1)) \o <<" ">>
    \o Strip(m.g2) \o <<" ">>
    \o replace_dots_with_underscores(Strip(m.g3))

\* One iteration of the loop over output_lines (lines 80-118): the line
\* appended to processed_lines and what the iteration adds to the two sets.
process_line(s) ==
  LET d == class_declaration_pattern(s)
      r == relationship_pattern(s)
  IN  IF d.matched
      THEN [kind |-> "declaration",
            new_line |-> declaration_new_line(d),
            declared |-> {replace_dots_with_underscores(Strip(d.g2))},
            referenced |-> {}]
      ELSE IF r.matched
      THEN [kind |-> "relationship",
            new_line |-> relationship_new_line(s, r),
            declared |-> {},
            referenced |-> {replace_dots_with_underscores(Strip(r.g1)),
                            replace_dots_with_underscores(Strip(r.g3))}]
      ELSE [kind |-> "passthrough",
            new_line |-> s,
            declared |-> {},
            referenced |-> {}]

\* The three accumulators when the loop ends.
processed_lines(ls) == [i \in 1..Len(ls) |-> process_line(ls[i]).new_line]
declared_classes(ls) == UNION {process_line(ls[i]).declared : i \in 1..Len(ls)}
referenced_classes(ls) == UNION {process_line(ls[i]).referenced : i \in 1..Len(ls)}

\* The difference taken the wrong way round.
missing_classes_swapped(ls) == declared_classes(ls) \ referenced_classes(ls)

missing_classes(ls) == referenced_classes(ls) \ declared_classes(ls)

\* The backward search of lines 127-131: the 1-based index of the last line
\* whose stripped content is the closing fence, 0 for None.
closing_code_block_index(pl) ==
  LET hits == {i \in 1..Len(pl) : Strip(pl[i]) = Fence}
  IN  IF hits = {} THEN 0 ELSE CHOOSE i \in hits : \A j \in hits : j <= i

\* The declarations written without their keyword.
missing_class_declarations_bare(missing) == Sorted(missing)

\* [f'class {class_name}' for class_name in sorted(missing_classes)]
missing_class_declarations(missing) ==
  LET names == Sorted(missing)
  IN  [k \in 1..Len(names) |-> ClassSpace \o names[k]]

\* The blank line never put.
needs_separator_never(pl, at) == FALSE

\* Lines 142-143: whether a blank line is put before the declarations.  at is
\* the 1-based insertion index, so the Python index is at - 1 and the line
\* before it is pl[at - 1].
needs_separator(pl, at) == at - 1 > 0 /\ Strip(pl[at - 1]) # <<>>

\* Lines 120-152.
splice_missing(pl, missing) ==
  LET found == closing_code_block_index(pl)
      lines == IF found = 0 THEN Append(pl, <<>>) ELSE pl
      at    == IF found = 0 THEN Len(lines) + 1 ELSE found
      decls == missing_class_declarations(missing)
      block == IF needs_separator(lines, at) THEN <<(<<>>)>> \o decls ELSE decls
  IN  SubSeq(lines, 1, at - 1) \o block \o SubSeq(lines, at, Len(lines))

ensure_classes_declared(ls) ==
  LET pl      == processed_lines(ls)
      missing == missing_classes(ls)
  IN  IF missing = {} THEN pl ELSE splice_missing(pl, missing)

(***************************************************************************)
(* Inputs                                                                  *)
(***************************************************************************)

\* Bounds of the model.
MaxTokens == 4
MaxLines == 3
MaxFiles == 2

\* All sequences of at most n elements of S.
SeqUpTo(S, n) == UNION {[1..k -> S] : k \in 0..n}

\* The lines made of at most MaxTokens of the given pieces.
LinesOf(tokens) == {Flatten(t) : t \in SeqUpTo(tokens, MaxTokens)}

\* input_lines of test_ensure_classes_declared.
test_input_lines ==
  <<<<Backtick, Backtick, Backtick, "m", "e", "r", "m", "a", "i", "d">>,
    <<"c", "l", "a", "s", "s", "D", "i", "a", "g", "r", "a", "m">>,
    <<" ", " ", " ", " ", "c", "l", "a", "s", "s", " ", "C", "h", "a", "t", "H", "i",
      "s", "t", "o", "r", "y", "M", "a", "n", "a", "g", "e", "r", " ", "{">>,
    <<" ", " ", " ", " ", " ", " ", " ", " ", "-", "c", "h", "a", "t", "H", "i", "s",
      "t", "o", "r", "y", ":", " ", "C", "o", "r", "e", "M", "e", "s", "s", "a", "g",
      "e", "[", "]">>,
    <<" ", " ", " ", " ", " ", " ", " ", " ", "+", "a", "d", "d", "M", "e", "s", "s",
      "a", "g", "e", "(", "r", "o", "l", "e", ":", " ", "'", "u", "s", "e", "r", "'",
      " ", "|", " ", "'", "a", "s", "s", "i", "s", "t", "a", "n", "t", "'", ",", " ",
      "c", "o", "n", "t", "e", "n", "t", ":", " ", "s", "t", "r", "i", "n", "g", ")",
      ":", " ", "v", "o", "i", "d">>,
    <<" ", " ", " ", " ", "}">>,
    <<>>,
    <<" ", " ", " ", " ", "E", "x", "t", "e", "n", "s", "i", "o", "n", " ", "-", "-",
      ">", " ", "v", "s", "c", "o", "d", "e", ".", "E", "x", "t", "e", "n", "s", "i",
      "o", "n", "C", "o", "n", "t", "e", "x", "t">>,
    <<" ", " ", " ", " ", "E", "x", "t", "e", "n", "s", "i", "o", "n", " ", "-", "-",
      ">", " ", "F", "i", "l", "t", "e", "r", "e", "d", "T", "r", "e", "e", "D", "a",
      "t", "a", "P", "r", "o", "v", "i", "d", "e", "r">>,
    <<>>,
    <<Backtick, Backtick, Backtick>>>>

\* expected_output of test_ensure_classes_declared.
test_expected_output ==
  <<<<Backtick, Backtick, Backtick, "m", "e", "r", "m", "a", "i", "d">>,
    <<"c", "l", "a", "s", "s", "D", "i", "a", "g", "r", "a", "m">>,
    <<" ", " ", " ", " ", "c", "l", "a", "s", "s", " ", "C", "h", "a", "t", "H", "i",
      "s", "t", "o", "r", "y", "M", "a", "n", "a", "g", "e", "r", " ", "{">>,
    <<" ", " ", " ", " ", " ", " ", " ", " ", "-", "c", "h", "a", "t", "H", "i", "s",
      "t", "o", "r", "y", ":", " ", "C", "o", "r", "e", "M", "e", "s", "s", "a", "g",
      "e", "[", "]">>,
    <<" ", " ", " ", " ", " ", " ", " ", " ", "+", "a", "d", "d", "M", "e", "s", "s",
      "a", "g", "e", "(", "r", "o", "l", "e", ":", " ", "'", "u", "s", "e", "r", "'",
      " ", "|", " ", "'", "a", "s", "s", "i", "s", "t", "a", "n", "t", "'", ",", " ",
      "c", "o", "n", "t", "e", "n", "t", ":", " ", "s", "t", "r", "i", "n", "g", ")",
      ":", " ", "v", "o", "i", "d">>,
    <<" ", " ", " ", " ", "}">>,
    <<>>,
    <<" ", " ", " ", " ", "E", "x", "t", "e", "n", "s", "i", "o", "n", " ", "-", "-",
      ">", " ", "v", "s", "c", "o", "d", "e", "_", "E", "x", "t", "e", "n", "s", "i",
      "o", "n", "C", "o", "n", "t", "e", "x", "t">>,
    <<" ", " ", " ", " ", "E", "x", "t", "e", "n", "s", "i", "o", "n", " ", "-", "-",
      ">", " ", "F", "i", "l", "t", "e", "r", "e", "d", "T", "r", "e", "e", "D", "a",
      "t", "a", "P", "r", "o", "v", "i", "d", "e", "r">>,
    <<>>,
    <<>>,
    <<"c", "l", "a", "s", "s", " ", "E", "x", "t", "e", "n", "s", "i", "o", "n">>,
    <<"c", "l", "a", "s", "s", " ", "F", "i", "l", "t", "e", "r", "e", "d", "T", "r",
      "e", "e", "D", "a", "t", "a", "P", "r", "o", "v", "i", "d", "e", "r">>,
    <<"c", "l", "a", "s", "s", " ", "v", "s", "c", "o", "d", "e", "_", "E", "x", "t",
      "e", "n", "s", "i", "o", "n", "C", "o", "n", "t", "e", "x", "t">>,
    <<Backtick, Backtick, Backtick>>>>


\* Pieces of declaration and relationship lines.
CloserTokens ==
  {<<"c", "l", "a", "s", "s", " ">>, <<"a", ".", "b">>, <<"B">>, <<" ">>,
   <<"-", "-", ">">>, <<"<", "|">>, <<"-">>, <<"{">>, <<"}">>, <<":", "x">>}

\* Whole lines for documents of several lines: a declaration that opens a
\* body, a relationship with a dotted endpoint, the end of a body, an empty
\* line, the closing fence, a declaration without body, a relationship
\* between plain names, a line of white space.
CloserLines ==
  {<<"c", "l", "a", "s", "s", " ", "A", " ", "{">>,
   <<" ", " ", "B", " ", "-", "-", ">", " ", "c", ".", "d">>,
   <<"}">>,
   <<>>,
   Fence,
   <<"c", "l", "a", "s", "s", " ", "c", ".", "d">>,
   <<"A", "-", "-", ">", "B">>,
   <<" ", " ">>}

\* The line lists ensure_classes_declared is run on.
Documents ==
  SeqUpTo(CloserLines, MaxLines)
    \cup {<<l>> : l \in LinesOf(CloserTokens)}
    \cup {test_input_lines}

(***************************************************************************)
(* ensure_classes_declared run on a document, then on its own result       *)
(***************************************************************************)

InitCloser ==
  /\ pc = "call"
  /\ output_lines \in Documents
  /\ processed = <<>> /\ declared = {} /\ referenced = {}
  /\ result = <<>> /\ result2 = <<>>
  /\ line = <<>> /\ sanitized = <<>>
  /\ files = <<>> /\ fidx = 0 /\ lidx = 0 /\ written = <<>>

\* result = ensure_classes_declared(input_lines)
EnsureClassesDeclared ==
  /\ pc = "call"
  /\ processed' = processed_lines(output_lines)
  /\ declared' = declared_classes(output_lines)
  /\ referenced' = referenced_classes(output_lines)
  /\ result' = ensure_classes_declared(output_lines)
  /\ pc' = "returned"
  /\ UNCHANGED <<output_lines, result2, line, sanitized, files, fidx, lidx, written>>

\* ensure_classes_declared(result)
EnsureClassesDeclaredAgain ==
  /\ pc = "returned"
  /\ result2' = ensure_classes_declared(result)
  /\ pc' = "returned again"
  /\ UNCHANGED <<output_lines, processed, declared, referenced, result,
                 line, sanitized, files, fidx, lidx, written>>

NextCloser == EnsureClassesDeclared \/ EnsureClassesDeclaredAgain

SpecCloser == InitCloser /\ [][NextCloser]_vars

(***************************************************************************)
(* Properties of ensure_classes_declared                                   *)
(***************************************************************************)

\* The identifiers that are referenced and not declared when the loop ends.
MissingSet == referenced \ declared

\* The string without its white space.
WithoutSpaces(s) == SelectSeq(s, LAMBDA c : c \notin WhiteSpace)

Blank(s) == Strip(s) = <<>>

\* C1: in the returned sequence every endpoint of a relationship line, and
\* every endpoint recorded from the input, is the name of a declaration line
\* of that same sequence: scanning the result again gives a DeclaredSet that
\* contains the ReferencedSet.
C1_Closure ==
  pc = "returned" =>
    /\ referenced_classes(result) \subseteq declared_classes(result)
    /\ referenced \subseteq declared_classes(result)

\* C1: a run in which one endpoint had a declaration and another had none.
C1_Witness ==
  /\ pc = "returned"
  /\ MissingSet # {}
  /\ referenced \cap declared # {}

\* C2: running ensure_classes_declared on its own result returns that result
\* line for line; the second pass has nothing missing and rewrites every
\* line to itself.
C2_Idempotent ==
  pc = "returned again" =>
    /\ result2 = result
    /\ missing_classes(result) = {}
    /\ processed_lines(result) = result

\* C2: a second pass over a result in which the first pass both rewrote a
\* line and inserted declarations.
C2_Witness ==
  /\ pc = "returned again"
  /\ processed # output_lines
  /\ Len(result) > Len(output_lines)

\* C4: on the document of test_ensure_classes_declared the function returns
\* the 15 lines the test expects: the ten lines before the fence, an added
\* blank line, the three sorted declarations and the closing fence.
C4_TestedInstance ==
  (pc = "returned" /\ output_lines = test_input_lines) =>
    result = test_expected_output

\* C7: a declaration line is emitted as its prefix, its normalized name and
\* the whole remainder of the line after the name, closing brace and what
\* follows it included.
C7_DeclarationKeepsRemainder ==
  pc = "returned" =>
    \A i \in 1..Len(output_lines) :
      LET s == output_lines[i]
          m == class_declaration_pattern(s)
      IN  m.matched =>
            processed[i] =
              m.g1 \o replace_dots_with_underscores(m.g2)
                   \o Slice(s, Len(m.g1) + Len(m.g2) + 1, Len(s))

\* C8: a relationship line is emitted as leading white space, normalized
\* source, one space, the connector, one space, normalized target; nothing
\* but spacing of the original line is missing from it; both normalized
\* endpoints are in ReferencedSet.
C8_RelationshipRewrite ==
  pc = "returned" =>
    \A i \in 1..Len(output_lines) :
      LET s == output_lines[i]
          m == relationship_pattern(s)
          src == replace_dots_with_underscores(m.g1)
          tgt == replace_dots_with_underscores(m.g3)
      IN  (~class_declaration_pattern(s).matched /\ m.matched) =>
            /\ processed[i] = leading_spaces(s) \o src \o <<" ">> \o m.g2 \o <<" ">> \o tgt
            /\ WithoutSpaces(processed[i]) =
                 src \o m.g2 \o tgt \o WithoutSpaces(Slice(s, m.end, Len(s)))
            /\ {src, tgt} \subseteq referenced

\* The insertion point of the synthesized declarations in the rewritten
\* lines: the last line that is the closing fence, or the end of the lines
\* extended by one blank line.
C9_Fences == {i \in 1..Len(processed) : Strip(processed[i]) = Fence}
C9_Base == IF C9_Fences = {} THEN Append(processed, <<>>) ELSE processed
C9_At ==
  IF C9_Fences = {} THEN Len(C9_Base) + 1
  ELSE CHOOSE i \in C9_Fences : \A j \in C9_Fences : j <= i
C9_Separator == IF C9_At > 1 /\ ~Blank(C9_Base[C9_At - 1]) THEN 1 ELSE 0
C9_First == C9_At + C9_Separator
C9_Name(k) == Slice(result[C9_First + k - 1], Len(ClassSpace) + 1,
                    Len(result[C9_First + k - 1]))

\* What C9 says of the block and of the lines around it.
C9_Block ==
  LET n == Cardinality(MissingSet)
  IN  IF MissingSet = {} THEN result = processed
      ELSE /\ Len(result) = Len(C9_Base) + C9_Separator + n
           /\ \A i \in 1..(C9_At - 1) : result[i] = C9_Base[i]
           /\ C9_Separator = 1 => result[C9_At] = <<>>
           /\ \A k \in 1..n :
                /\ StartsWith(result[C9_First + k - 1], ClassSpace)
                /\ C9_Name(k) \in MissingSet
           /\ \A k \in 1..n : \A j \in 1..n :
                k < j => StrLess(C9_Name(k), C9_Name(j))
           /\ \A i \in C9_At..Len(C9_Base) :
                result[i + C9_Separator + n] = C9_Base[i]

\* The number of blank lines between the block and the last non-blank line
\* before it.
C9_BlanksBefore ==
  LET solid == {i \in 1..(C9_First - 1) : ~Blank(result[i])}
      last  == CHOOSE i \in solid : \A j \in solid : j <= i
  IN  C9_First - 1 - last

BodyLines(ls) ==
  {i \in 1..Len(ls) :
     \E j \in 1..(i - 1) :
        /\ class_declaration_pattern(ls[j]).matched
        /\ Contains(ls[j], <<"{">>)
        /\ ~Contains(ls[j], <<"}">>)
        /\ \A k \in (j + 1)..i : ~Contains(ls[k], <<"}">>)}

\* C10: a line inside a declaration body is emitted unchanged and adds
\* nothing to DeclaredSet or ReferencedSet.
C10_BodiesOpaque ==
  pc = "returned" =>
    LET outside == (1..Len(output_lines)) \ BodyLines(output_lines)
    IN  /\ \A i \in BodyLines(output_lines) : processed[i] = output_lines[i]
        /\ declared = UNION {process_line(output_lines[i]).declared : i \in outside}
        /\ referenced = UNION {process_line(output_lines[i]).referenced : i \in outside}

(***************************************************************************)
(* replace_problematic_characters_in_signature run on a line               *)
(***************************************************************************)

\* Pieces of member lines; a line read from a file ends with "\n".
SanitizerTokens ==
  {<<" ">>, <<"+", "f", "(">>, <<"-", "g">>, <<"(">>, <<"{">>, <<"}">>, <<")">>,
   <<"\n">>, <<"x">>}

InitSanitizer ==
  /\ pc = "sanitize"
  /\ line \in LinesOf(SanitizerTokens)
  /\ sanitized = <<>>
  /\ output_lines = <<>> /\ processed = <<>> /\ declared = {} /\ referenced = {}
  /\ result = <<>> /\ result2 = <<>>
  /\ files = <<>> /\ fidx = 0 /\ lidx = 0 /\ written = <<>>

\* result = replace_problematic_characters_in_signature(input_line)
ReplaceProblematicCharacters ==
  /\ pc = "sanitize"
  /\ sanitized' = replace_problematic_characters_in_signature(line)
  /\ pc' = "sanitized"
  /\ UNCHANGED <<output_lines, processed, declared, referenced, result, result2,
                 line, files, fidx, lidx, written>>

NextSanitizer == ReplaceProblematicCharacters

SpecSanitizer == InitSanitizer /\ [][NextSanitizer]_vars

\* C3: a line of the method-signature shape is returned as its signature,
\* braces escaped, followed by everything of the line after the first ')',
\* character for character; any other line is returned as it is.
C3_SuffixIdentical ==
  pc = "sanitized" =>
    LET m == method_signature_match(line)
    IN  IF m.matched
        THEN sanitized =
               replaced_signature(m.method_signature)
                 \o Slice(line, Len(m.method_signature) + 1, Len(line))
        ELSE sanitized = line

(***************************************************************************)
(* concatenate_mermaid_diagrams_with_replacements                          *)
(***************************************************************************)

MdExtension == <<".", "m", "d">>

\* filename.endswith('.md')
EndsWith(s, lit) == Len(s) >= Len(lit) /\ HasAt(s, Len(s) - Len(lit) + 1, lit)

\* The entries a directory can hold: a whole diagram with its framing, a
\* fragment whose last line has no newline, a file that is no diagram, an
\* empty file, a fragment with an indented fence.
DirEntries ==
  {[name |-> <<"a", ".", "m", "d">>,
     lines |-> <<<<Backtick, Backtick, Backtick, "m", "e", "r", "m", "a", "i", "d",
                    "\n">>,
                 <<"c", "l", "a", "s", "s", "D", "i", "a", "g", "r", "a", "m", "\n">>,
                 <<"c", "l", "a", "s", "s", " ", "A", " ", "{", "\n">>,
                 <<" ", " ", "+", "f", "(", "x", ":", " ", "{", "}", ")", " ", "{",
                    "}", " ", " ", "\n">>,
                 <<"}", "\n">>,
                 <<"A", " ", "-", "-", ">", " ", "b", ".", "c", "\n">>,
                 <<Backtick, Backtick, Backtick, "\n">>>>],
   [name |-> <<"b", ".", "m", "d">>,
     lines |-> <<<<" ", " ", "c", "l", "a", "s", "s", "D", "i", "a", "g", "r", "a",
                    "m", "\n">>,
                 <<"c", "l", "a", "s", "s", " ", "c", "l", "a", "s", "s", "D", "i",
                    "a", "g", "r", "a", "m", "X", "\n">>,
                 <<"B", " ", "-", "-", ">", " ", "A">>>>],
   [name |-> <<"n", ".", "t", "x", "t">>,
     lines |-> <<<<"X", " ", "-", "-", ">", " ", "Y", "\n">>>>],
   [name |-> <<"c", ".", "m", "d">>,
     lines |-> <<>>],
   [name |-> <<"d", ".", "m", "d">>,
     lines |-> <<<<"\n">>,
                 <<" ", Backtick, Backtick, Backtick, "\n">>,
                 <<"c", "l", "a", "s", "s", " ", "b", ".", "c", " ", "{", "}", "\n">>,
                 <<"-", "g", "(", "y", ")", "\n">>>>]}

\* os.listdir(input_dir): at most MaxFiles entries, no name twice.
Listings ==
  {fs \in SeqUpTo(DirEntries, MaxFiles) :
     \A i \in 1..Len(fs) : \A j \in 1..Len(fs) : fs[i].name = fs[j].name => i = j}

\* line.strip().startswith(three grave accents)
skips_fence(l) == StartsWith(Strip(l), Fence)

\* 'classDiagram' in line
skips_header(l) == Contains(l, ClassDiagram)

\* new_line.rstrip() of line 186
ingested(l) == RStrip(replace_problematic_characters_in_signature(l))

\* The state after lines 165-167.
InitDriver ==
  /\ pc = "scan"
  /\ files \in Listings
  /\ fidx = 1 /\ lidx = 1
  /\ output_lines = <<FenceMermaid, ClassDiagram>>
  /\ written = <<>>
  /\ processed = <<>> /\ declared = {} /\ referenced = {}
  /\ result = <<>> /\ result2 = <<>>
  /\ line = <<>> /\ sanitized = <<>>

AtEntry == pc = "scan" /\ fidx <= Len(files)
AtLine == AtEntry /\ EndsWith(files[fidx].name, MdExtension)
                  /\ lidx <= Len(files[fidx].lines)
CurrentLine == files[fidx].lines[lidx]

DriverLocals == <<processed, declared, referenced, result, result2, line, sanitized>>

\* Line 171: an entry that is no .md file.
SkipEntry ==
  /\ AtEntry
  /\ ~EndsWith(files[fidx].name, MdExtension)
  /\ fidx' = fidx + 1
  /\ UNCHANGED <<pc, files, lidx, output_lines, written, DriverLocals>>

\* Lines 178-179.
SkipFenceLine ==
  /\ AtLine
  /\ skips_fence(CurrentLine)
  /\ lidx' = lidx + 1
  /\ UNCHANGED <<pc, files, fidx, output_lines, written, DriverLocals>>

\* Lines 181-182.
SkipHeaderLine ==
  /\ AtLine
  /\ ~skips_fence(CurrentLine)
  /\ skips_header(CurrentLine)
  /\ lidx' = lidx + 1
  /\ UNCHANGED <<pc, files, fidx, output_lines, written, DriverLocals>>

\* Lines 185-186.
AppendLine ==
  /\ AtLine
  /\ ~skips_fence(CurrentLine)
  /\ ~skips_header(CurrentLine)
  /\ line' = CurrentLine
  /\ sanitized' = replace_problematic_characters_in_signature(CurrentLine)
  /\ output_lines' = Append(output_lines, ingested(CurrentLine))
  /\ lidx' = lidx + 1
  /\ UNCHANGED <<pc, files, fidx, written, processed, declared, referenced,
                 result, result2>>

\* The separator forgotten.
EndOfFileNoSeparator ==
  /\ AtEntry
  /\ EndsWith(files[fidx].name, MdExtension)
  /\ lidx > Len(files[fidx].lines)
  /\ fidx' = fidx + 1
  /\ lidx' = 1
  /\ UNCHANGED <<pc, files, output_lines, written, DriverLocals>>

\* Line 189, and the next entry of the listing.
EndOfFile ==
  /\ AtEntry
  /\ EndsWith(files[fidx].name, MdExtension)
  /\ lidx > Len(files[fidx].lines)
  /\ output_lines' = Append(output_lines, <<>>)
  /\ fidx' = fidx + 1
  /\ lidx' = 1
  /\ UNCHANGED <<pc, files, written, DriverLocals>>

\* Lines 192-199.
WriteOutput ==
  /\ pc = "scan"
  /\ fidx > Len(files)
  /\ processed' = processed_lines(output_lines)
  /\ declared' = declared_classes(output_lines)
  /\ referenced' = referenced_classes(output_lines)
  /\ result' = ensure_classes_declared(output_lines)
  /\ output_lines' = Append(ensure_classes_declared(output_lines), Fence)
  /\ written' = output_lines'
  /\ pc' = "done"
  /\ UNCHANGED <<files, fidx, lidx, result2, line, sanitized>>

NextDriver ==
  \/ SkipEntry
  \/ SkipFenceLine
  \/ SkipHeaderLine
  \/ AppendLine
  \/ EndOfFile
  \/ WriteOutput

SpecDriver == InitDriver /\ [][NextDriver]_vars

\* The lines of ls, in order, that the test keep lets through, as ingested.
CarriedBy(ls, keep(_)) ==
  LET kept == SelectSeq(ls, keep)
  IN  [k \in 1..Len(kept) |-> ingested(kept[k])]

\* What the listing contributes when the entries before f have been read to
\* their end and n lines of entry f have been read: a .md file read to its
\* end gives its carried lines and a blank line.
BodyUpTo(fs, f, n, keep(_)) ==
  Flatten([e \in 1..(IF f <= Len(fs) THEN f ELSE Len(fs)) |->
             IF ~EndsWith(fs[e].name, MdExtension) THEN <<>>
             ELSE IF e < f THEN CarriedBy(fs[e].lines, keep) \o <<(<<>>)>>
             ELSE CarriedBy(SubSeq(fs[e].lines, 1, n), keep)])

\* A code-fence marker line or a diagram-type header line.
IsFramingLine(l) == StartsWith(Strip(l), Fence) \/ Strip(l) = ClassDiagram
NotFraming(l) == ~IsFramingLine(l)

\* The lines the ingestion filter of the code lets through.
Ingestible(l) == ~skips_fence(l) /\ ~skips_header(l)

\* C6: while the files are read the accumulated list is the two framing
\* lines followed by every line read so far that is neither a fence marker
\* nor a diagram-type header, sanitized, with a blank line after each file
\* read to its end: nothing else is dropped.
C6_OnlyFramingDropped ==
  pc = "scan" =>
    output_lines =
      <<FenceMermaid, ClassDiagram>> \o BodyUpTo(files, fidx, lidx - 1, NotFraming)

\* The body lines of all files as the driver accumulates them.
C5_Body == BodyUpTo(files, Len(files) + 1, 0, Ingestible)
C5_Missing ==
  referenced_classes(C5_Body) \ declared_classes(C5_Body)

\* C5: what is written is one fenced block: the opening fence, the header,
\* the body lines of the files in listing order, each file's lines in their
\* order and a blank line after each file, then the synthesized declarations,
\* then the closing fence as last line; no line between the header and the
\* last line is a fence line.
C5_Framing ==
  pc = "done" =>
    /\ Len(written) >= 3
    /\ written[1] = FenceMermaid
    /\ written[2] = ClassDiagram
    /\ written[Len(written)] = Fence
    /\ \A i \in 3..(Len(written) - 1) : ~StartsWith(Strip(written[i]), Fence)
    /\ Len(written) >= Len(C5_Body) + 3
    /\ \A k \in 1..Len(C5_Body) : written[2 + k] = process_line(C5_Body[k]).new_line
    /\ \A m \in C5_Missing :
         \E i \in (Len(C5_Body) + 3)..(Len(written) - 1) : written[i] = ClassSpace \o m

\* C5: two .md files with body lines were merged and declarations were
\* synthesized.
C5_Witness ==
  /\ pc = "done"
  /\ Len(files) >= 2
  /\ \A f \in 1..2 : EndsWith(files[f].name, MdExtension) /\ files[f].lines # <<>>
  /\ C5_Missing # {}

====
